---- MODULE Spec2Model ----
(***************************************************************************)
(* Model of ResolveIssueAgent._run_async_impl (src/agent/agent.py) as it   *)
(* is driven by main() (src/agent/main.py): one run of the four-stage      *)
(* pipeline over one session-state mapping.                                *)
(*                                                                         *)
(* The driver is an async generator.  Its steps are cut at its suspension  *)
(* points: everything the driver does between the end of one stage's       *)
(* event loop and the start of the next stage's (or its return) is one     *)
(* action.  A stage is an LlmAgent of the agent runtime; while it runs it  *)
(* may yield events (passed through by the driver), save its final text    *)
(* under its output_key, complete, or raise.                               *)
(***************************************************************************)
EXTENDS Naturals, Sequences, FiniteSets, TLC

(* ---------------------------- bounds ----------------------------------- *)

\* longest issue URL, in symbols
MaxUrlLen == 4

\* most events one run's stages yield through the driver
MaxStageEvents == 2

(* ---------------------------- values ----------------------------------- *)

\* Python None; json.dumps renders it as null
None == "None"

\* a key that is not in the session-state mapping
Absent == "Absent"

\* an LlmAgent constructed without output_key
NoKey == "NoKey"

\* URLs are sequences of symbols; "https://github.com" and "issues" are
\* single symbols, "/" is the slash, "x" any other text
UrlSymbols == {"https://github.com", "/", "issues", "x"}

RECURSIVE SeqsUpTo(_, _)
SeqsUpTo(S, n) ==
    IF n = 0 THEN {<<>>}
    ELSE LET shorter == SeqsUpTo(S, n - 1)
         IN  shorter \cup {Append(s, c) : s \in {t \in shorter : Len(t) = n - 1}, c \in S}

\* the values of --issue-url
IssueUrls == SeqsUpTo(UrlSymbols, MaxUrlLen)

\* the final texts a stage may save under its output_key; "" is falsy
StageTexts == {"", "text1", "text2"}

\* classes of what a stage may raise: RuntimeError derives from Exception,
\* CancelledError (and KeyboardInterrupt, SystemExit) only from BaseException
ExceptionClasses == {"RuntimeError", "CancelledError"}

\* str(e)
ExceptionMessages == {"", "boom"}

Raised == [cls : ExceptionClasses, msg : ExceptionMessages]

(* ---------------------------- helpers ---------------------------------- *)

\* s.startswith(p)
StartsWith(s, p) ==
    /\ Len(s) >= Len(p)
    /\ SubSeq(s, 1, Len(p)) = p

\* sub in s
Contains(s, sub) ==
    \E i \in 1..(Len(s) + 1) :
        /\ i + Len(sub) - 1 <= Len(s)
        /\ SubSeq(s, i, i + Len(sub) - 1) = sub

GithubPrefix == <<"https://github.com", "/">>

IssuesPart == <<"/", "issues", "/">>

\* the format test of the issue URL
ValidFormatOr(url) == StartsWith(url, GithubPrefix) \/ Contains(url, IssuesPart)
ValidFormat(url) == StartsWith(url, GithubPrefix) /\ Contains(url, IssuesPart)

\* the input validation: the error it reports, or None when the URL passes
ValidationErrorFormatFirst(url) ==
    IF ~ValidFormat(url) THEN "Invalid issue_url format"
    ELSE IF url = <<>> THEN "No issue_url provided"
    ELSE None
ValidationError(url) ==
    IF url = <<>> THEN "No issue_url provided"
    ELSE IF ~ValidFormat(url) THEN "Invalid issue_url format"
    ELSE None

\* dict.get(key): None for a key that is not there
Get(st, k) == IF st[k] = Absent THEN None ELSE st[k]

\* Python truth of a value read from session state
TruthyNotNone(v) == v # None
Truthy(v) == v # None /\ v # ""

\* isinstance(e, Exception): what "except Exception" catches
IsException(e) == e.cls = "RuntimeError"

(* ---------------------------- stages ----------------------------------- *)

StageOrder == <<"fetch_issue", "analyze_issue", "implement_fix", "create_pr">>

StageNames == {StageOrder[i] : i \in 1..Len(StageOrder)}

\* the output_key each LlmAgent is constructed with
OutputKeyPrIntoAnalysis(s) ==
    CASE s = "fetch_issue"   -> "issue_details"
      [] s = "analyze_issue" -> "analysis"
      [] s = "implement_fix" -> NoKey
      [] s = "create_pr"     -> "analysis"
OutputKeyImplementSummary(s) ==
    CASE s = "fetch_issue"   -> "issue_details"
      [] s = "analyze_issue" -> "analysis"
      [] s = "implement_fix" -> "implementation_summary"
      [] s = "create_pr"     -> "pr_output"
OutputKey(s) ==
    CASE s = "fetch_issue"   -> "issue_details"
      [] s = "analyze_issue" -> "analysis"
      [] s = "implement_fix" -> NoKey
      [] s = "create_pr"     -> "pr_output"

\* the session-state keys the driver reads besides issue_url
StateKeys == {"issue_details", "analysis", "implementation_summary", "pr_output"}

(* ---------------------------- envelopes -------------------------------- *)

Envelope(success, error, details, analysis, summary, pr) ==
    [success |-> success, error |-> error, issue_details |-> details,
     analysis |-> analysis, implementation_summary |-> summary,
     pull_request |-> pr]

NoIssueUrlResponse ==
    Envelope(FALSE, "No issue_url provided", None, None, None, None)

InvalidIssueUrlResponseShort ==
    [success |-> FALSE, error |-> "Invalid issue_url format"]
InvalidIssueUrlResponse ==
    Envelope(FALSE, "Invalid issue_url format", None, None, None, None)

NoIssueDetailsResponseWrongError(st) ==
    Envelope(FALSE, "No analysis found", None, None, None, None)
NoIssueDetailsResponse(st) ==
    Envelope(FALSE, "No issue_details found", None, None, None, None)

NoAnalysisResponseDropping(st) ==
    Envelope(FALSE, "No analysis found", None, None, None, None)
NoAnalysisResponse(st) ==
    Envelope(FALSE, "No analysis found", Get(st, "issue_details"), None, None, None)

PrFailedResponseNoSummary(st) ==
    Envelope(FALSE, "PR creation failed", Get(st, "issue_details"),
             Get(st, "analysis"), Get(st, "implementation_summary"), None)
PrFailedResponse(st) ==
    Envelope(FALSE, "PR creation failed", Get(st, "issue_details"),
             Get(st, "analysis"),
             "Changes were implemented but PR creation failed", None)

SuccessResponseNoPr(st) ==
    Envelope(TRUE, None, Get(st, "issue_details"), Get(st, "analysis"),
             "Successfully implemented code changes based on issue analysis",
             None)
SuccessResponse(st) ==
    Envelope(TRUE, None, Get(st, "issue_details"), Get(st, "analysis"),
             "Successfully implemented code changes based on issue analysis",
             Get(st, "pr_output"))

UnexpectedErrorResponseNoState(st, e) ==
    Envelope(FALSE, "Unexpected error: " \o e.msg, None, None, None, None)
UnexpectedErrorResponse(st, e) ==
    Envelope(FALSE, "Unexpected error: " \o e.msg, Get(st, "issue_details"),
             Get(st, "analysis"), Get(st, "implementation_summary"),
             Get(st, "pr_output"))

(* ---------------------------- state ------------------------------------ *)

VARIABLES
    pc,          \* "init", the name of the running stage, "returned"
                 \* (the generator finished) or "propagated" (it raised)
    issue_url,   \* ctx.session.state["issue_url"]
    state,       \* ctx.session.state, the keys of StateKeys
    emitted,     \* the envelopes the driver has yielded, in order
    started,     \* the stages whose run_async was entered, in order
    completed,   \* the stages whose event loop ended normally, in order
    stageEvents, \* the number of stage events passed through
    raised,      \* what the stages have raised, in order
    lastWrite    \* per key, the stage and text of the last save under it

vars == <<pc, issue_url, state, emitted, started, completed, stageEvents,
          raised, lastWrite>>

\* what the driver's own steps leave alone
history == <<stageEvents, raised, lastWrite>>

\* no stage has saved anything under the key
NoWrite == [stage |-> "none", text |-> Absent]

\* the session main() creates holds issue_url and user_input only
Init ==
    /\ pc = "init"
    /\ issue_url \in IssueUrls
    /\ state = [k \in StateKeys |-> Absent]
    /\ emitted = <<>>
    /\ started = <<>>
    /\ completed = <<>>
    /\ stageEvents = 0
    /\ raised = <<>>
    /\ lastWrite = [k \in StateKeys |-> NoWrite]

\* yield the envelope and return
ReturnWithoutYield(response) ==
    /\ emitted' = emitted
    /\ pc' = "returned"
Return(response) ==
    /\ emitted' = Append(emitted, response)
    /\ pc' = "returned"

\* construct the LlmAgent and enter its run_async
StartStage(s) ==
    /\ started' = Append(started, s)
    /\ pc' = s

(* ---------------------------- the driver ------------------------------- *)

NoIssueUrl ==
    /\ pc = "init"
    /\ ValidationError(issue_url) = "No issue_url provided"
    /\ Return(NoIssueUrlResponse)
    /\ UNCHANGED <<issue_url, state, started, completed, history>>

InvalidIssueUrl ==
    /\ pc = "init"
    /\ ValidationError(issue_url) = "Invalid issue_url format"
    /\ Return(InvalidIssueUrlResponse)
    /\ UNCHANGED <<issue_url, state, started, completed, history>>

StartFetch ==
    /\ pc = "init"
    /\ ValidationError(issue_url) = None
    /\ StartStage("fetch_issue")
    /\ UNCHANGED <<issue_url, state, emitted, completed, history>>

\* fetch_issue completed, issue_details is missing or falsy
FetchMissingRetry ==
    /\ pc = "fetch_issue"
    /\ ~Truthy(Get(state, "issue_details"))
    /\ completed' = Append(completed, pc)
    /\ StartStage("fetch_issue")
    /\ UNCHANGED <<issue_url, state, emitted, history>>
FetchMissing ==
    /\ pc = "fetch_issue"
    /\ ~Truthy(Get(state, "issue_details"))
    /\ completed' = Append(completed, pc)
    /\ Return(NoIssueDetailsResponse(state))
    /\ UNCHANGED <<issue_url, state, started, history>>

\* fetch_issue completed with issue_details: go on to analyze_issue
FetchFoundUnchecked ==
    /\ pc = "fetch_issue"
    /\ completed' = Append(completed, pc)
    /\ StartStage("analyze_issue")
    /\ UNCHANGED <<issue_url, state, emitted, history>>
FetchFound ==
    /\ pc = "fetch_issue"
    /\ Truthy(Get(state, "issue_details"))
    /\ completed' = Append(completed, pc)
    /\ StartStage("analyze_issue")
    /\ UNCHANGED <<issue_url, state, emitted, history>>

AnalyzeMissingContinues ==
    /\ pc = "analyze_issue"
    /\ ~Truthy(Get(state, "analysis"))
    /\ completed' = Append(completed, pc)
    /\ StartStage("implement_fix")
    /\ UNCHANGED <<issue_url, state, emitted, history>>
AnalyzeMissing ==
    /\ pc = "analyze_issue"
    /\ ~Truthy(Get(state, "analysis"))
    /\ completed' = Append(completed, pc)
    /\ Return(NoAnalysisResponse(state))
    /\ UNCHANGED <<issue_url, state, started, history>>

AnalyzeFoundSkipsImplement ==
    /\ pc = "analyze_issue"
    /\ Truthy(Get(state, "analysis"))
    /\ completed' = Append(completed, pc)
    /\ StartStage("create_pr")
    /\ UNCHANGED <<issue_url, state, emitted, history>>
AnalyzeFound ==
    /\ pc = "analyze_issue"
    /\ Truthy(Get(state, "analysis"))
    /\ completed' = Append(completed, pc)
    /\ StartStage("implement_fix")
    /\ UNCHANGED <<issue_url, state, emitted, history>>

\* implement_fix completed: nothing is checked, create_pr starts
ImplementDone ==
    /\ pc = "implement_fix"
    /\ completed' = Append(completed, pc)
    /\ StartStage("create_pr")
    /\ UNCHANGED <<issue_url, state, emitted, history>>

PrMissingRetry ==
    /\ pc = "create_pr"
    /\ ~Truthy(Get(state, "pr_output"))
    /\ completed' = Append(completed, pc)
    /\ StartStage("create_pr")
    /\ UNCHANGED <<issue_url, state, emitted, history>>
PrMissing ==
    /\ pc = "create_pr"
    /\ ~Truthy(Get(state, "pr_output"))
    /\ completed' = Append(completed, pc)
    /\ Return(PrFailedResponse(state))
    /\ UNCHANGED <<issue_url, state, started, history>>

PrFoundStoresSummary ==
    /\ pc = "create_pr"
    /\ Truthy(Get(state, "pr_output"))
    /\ completed' = Append(completed, pc)
    /\ state' = [state EXCEPT !["implementation_summary"] = "text1"]
    /\ Return(SuccessResponse(state))
    /\ UNCHANGED <<issue_url, started, history>>
PrFound ==
    /\ pc = "create_pr"
    /\ Truthy(Get(state, "pr_output"))
    /\ completed' = Append(completed, pc)
    /\ Return(SuccessResponse(state))
    /\ UNCHANGED <<issue_url, state, started, history>>

\* the running stage raises an instance of Exception: the handler
HandleException ==
    /\ pc \in StageNames
    /\ \E e \in Raised :
         /\ IsException(e)
         /\ raised' = Append(raised, e)
         /\ Return(UnexpectedErrorResponse(state, e))
    /\ UNCHANGED <<issue_url, state, started, completed, stageEvents, lastWrite>>

\* the running stage raises what "except Exception" does not catch
PropagateBaseException ==
    /\ pc \in StageNames
    /\ \E e \in Raised :
         /\ ~IsException(e)
         /\ raised' = Append(raised, e)
    /\ pc' = "propagated"
    /\ UNCHANGED <<issue_url, state, emitted, started, completed, stageEvents,
                   lastWrite>>

(* ---------------------------- the running stage ------------------------ *)

\* the stage yields an event, which the driver yields on
StageYieldTimeout ==
    /\ pc \in StageNames
    /\ stageEvents < MaxStageEvents
    /\ stageEvents' = stageEvents + 1
    /\ Return(Envelope(FALSE, "Timed out", None, None, None, None))
    /\ UNCHANGED <<issue_url, state, started, completed, raised, lastWrite>>
StageYield ==
    /\ pc \in StageNames
    /\ stageEvents < MaxStageEvents
    /\ stageEvents' = stageEvents + 1
    /\ UNCHANGED <<pc, issue_url, state, emitted, started, completed, raised,
                   lastWrite>>

\* the stage saves its final text under its output_key
StageWrite ==
    /\ pc \in StageNames
    /\ OutputKey(pc) # NoKey
    /\ \E text \in StageTexts :
         /\ state' = [state EXCEPT ![OutputKey(pc)] = text]
         /\ lastWrite' = [lastWrite EXCEPT ![OutputKey(pc)] =
                             [stage |-> pc, text |-> text]]
    /\ UNCHANGED <<pc, issue_url, emitted, started, completed, stageEvents,
                   raised>>

Next ==
    \/ NoIssueUrl
    \/ InvalidIssueUrl
    \/ StartFetch
    \/ FetchMissing
    \/ FetchFound
    \/ AnalyzeMissing
    \/ AnalyzeFound
    \/ ImplementDone
    \/ PrMissing
    \/ PrFound
    \/ HandleException
    \/ PropagateBaseException
    \/ StageYield
    \/ StageWrite

Spec == Init /\ [][Next]_vars

\* the driver's first step: the validation, then an envelope or fetch_issue
DriverBegins ==
    \/ NoIssueUrl
    \/ InvalidIssueUrl
    \/ StartFetch

\* the running stage ends: its event loop is exhausted, or it raises
StageEnds ==
    \/ FetchMissing
    \/ FetchFound
    \/ AnalyzeMissing
    \/ AnalyzeFound
    \/ ImplementDone
    \/ PrMissing
    \/ PrFound
    \/ HandleException
    \/ PropagateBaseException

\* the run under the assumption that the driver is scheduled and that every
\* started stage eventually completes or raises
FairSpec ==
    /\ Spec
    /\ WF_vars(DriverBegins)
    /\ WF_vars(StageEnds)

TypeOK ==
    /\ pc \in {"init", "returned", "propagated"} \cup StageNames
    /\ issue_url \in IssueUrls
    /\ state \in [StateKeys -> StageTexts \cup {Absent}]
    /\ stageEvents \in 0..MaxStageEvents

(* ---------------------------- properties ------------------------------- *)

\* the value of a session-state key as an envelope shows it: null when absent
ValueOrNull(k) == IF state[k] = Absent THEN None ELSE state[k]

\* the position of a stage in the pipeline
StageIndex(s) == CHOOSE i \in 1..Len(StageOrder) : StageOrder[i] = s

\* the stage the data model names as the producer of a key
ProducerOf(k) ==
    CASE k = "issue_details" -> "fetch_issue"
      [] k = "analysis"      -> "analyze_issue"
      [] k = "pr_output"     -> "create_pr"

ProducedKeys == {"issue_details", "analysis", "pr_output"}

\* the envelope field that shows a key
FieldValue(env, k) ==
    CASE k = "issue_details" -> env.issue_details
      [] k = "analysis"      -> env.analysis
      [] k = "pr_output"     -> env.pull_request

\* the fixed error string of a stage whose key is missing
MissingKeyError(s) ==
    CASE s = "fetch_issue"   -> "No issue_details found"
      [] s = "analyze_issue" -> "No analysis found"
      [] s = "create_pr"     -> "PR creation failed"

\* the step in which the running stage completes
StageCompletes == completed' # completed

\* the running stage has left its output key in session state
ProducedItsKey == OutputKey(pc) # NoKey /\ state[OutputKey(pc)] # Absent

\* the step emits one failure envelope and ends the run, starting no stage
StopsWithFailure ==
    /\ pc' = "returned"
    /\ started' = started
    /\ Len(emitted') = 1
    /\ emitted'[1].success = FALSE

\* C1 as stated: for each of the four stages, a stage that completes without
\* having produced its session-state key makes the driver emit a success:false
\* envelope and stop, so that no later stage is started.
C1_EveryStageMissingKeyStops ==
    [][(StageCompletes /\ ~ProducedItsKey) => StopsWithFailure]_vars

\* C1 amended: for each of the three stages that have an output key (fetch
\* issue, analyze issue, open pull request), completing with the key absent
\* makes the driver emit one success:false envelope with the stage's fixed
\* error string, carrying the keys the earlier stages produced and null for the
\* others, and stop; implement fix has no output key and its completion always
\* starts open pull request; after the driver has returned no stage is started.
C1_MissingKeyStops ==
    [][/\ (StageCompletes /\ OutputKey(pc) # NoKey /\ state[OutputKey(pc)] = Absent)
            => /\ StopsWithFailure
               /\ emitted'[1].error = MissingKeyError(pc)
               /\ \A k \in ProducedKeys :
                    FieldValue(emitted'[1], k) =
                        IF StageIndex(ProducerOf(k)) < StageIndex(pc)
                        THEN ValueOrNull(k) ELSE None
       /\ (StageCompletes /\ OutputKey(pc) = NoKey)
            => (pc' = "create_pr" /\ emitted' = emitted)
       /\ pc = "returned" => started' = started]_vars

\* analyze issue completed without analysis after fetch issue had produced
\* issue_details, and the run stopped with its envelope
C1_Witness ==
    /\ pc = "returned"
    /\ completed = <<"fetch_issue", "analyze_issue">>
    /\ state["issue_details"] # Absent
    /\ state["analysis"] = Absent
    /\ Len(emitted) = 1

\* the key was found after its stage: present and not empty
Found(k) == state[k] # Absent /\ state[k] # ""

\* C2: on full success (all four stages completed and issue_details, analysis
\* and pr_output were found) the single envelope has success:true, error:null,
\* all four result fields populated, and issue_details, analysis and
\* pull_request equal to the session-state keys at the end of the run.
C2_FullSuccessEnvelope ==
    (pc = "returned" /\ completed = StageOrder /\ \A k \in ProducedKeys : Found(k))
        => /\ Len(emitted) = 1
           /\ emitted[1].success = TRUE
           /\ emitted[1].error = None
           /\ \A k \in ProducedKeys :
                /\ FieldValue(emitted[1], k) = state[k]
                /\ FieldValue(emitted[1], k) # None
           /\ emitted[1].implementation_summary # None

\* a run that completed all four stages with all three keys found
C2_Witness ==
    /\ pc = "returned"
    /\ completed = StageOrder
    /\ \A k \in ProducedKeys : Found(k)
    /\ Len(emitted) = 1

\* the envelope of the exception handler for what was raised first
HandledEnvelope ==
    /\ Len(emitted) = 1
    /\ emitted[1].success = FALSE
    /\ emitted[1].error = "Unexpected error: " \o raised[1].msg
    /\ \A k \in ProducedKeys : FieldValue(emitted[1], k) = ValueOrNull(k)

\* the stage that raised was the last one started
NoFurtherStage == Len(started) = Len(completed) + 1

Terminated == pc \in {"returned", "propagated"}

\* C4 as stated: never more than one envelope, and exactly one once the run
\* has terminated, on every path.
C4_ExactlyOneEnvelope ==
    /\ Len(emitted) <= 1
    /\ Terminated => Len(emitted) = 1

\* C4 amended: never more than one envelope; exactly one once the driver has
\* returned (empty URL, invalid URL, missing key, caught Exception, full
\* success); none when the run ended by an exception outside the Exception
\* hierarchy propagating to the caller.
C4_OneEnvelopeOnReturn ==
    /\ Len(emitted) <= 1
    /\ pc = "returned" => Len(emitted) = 1
    /\ pc = "propagated" => Len(emitted) = 0

\* a run that returned after its stages had passed events through
C4_Witness ==
    /\ pc = "returned"
    /\ stageEvents > 0
    /\ Len(emitted) = 1

\* the URL fails the format test
Malformed(url) ==
    \/ ~StartsWith(url, GithubPrefix)
    \/ ~Contains(url, IssuesPart)

AllNullEnvelope(error) ==
    [success |-> FALSE, error |-> error, issue_details |-> None,
     analysis |-> None, implementation_summary |-> None, pull_request |-> None]

\* C5: for a non-empty issue URL that does not start with
\* "https://github.com/" or does not contain "/issues/", the run ends at once
\* with the success:false envelope "Invalid issue_url format", all four result
\* fields null, and no stage is invoked.
C5_InvalidUrlRejected ==
    (pc # "init" /\ issue_url # <<>> /\ Malformed(issue_url))
        => /\ pc = "returned"
           /\ emitted = <<AllNullEnvelope("Invalid issue_url format")>>
           /\ started = <<>>
           /\ stageEvents = 0

\* a URL with the prefix but without "/issues/" was rejected
C5_Witness ==
    /\ pc = "returned"
    /\ StartsWith(issue_url, GithubPrefix)
    /\ ~Contains(issue_url, IssuesPart)
    /\ Len(emitted) = 1

\* C6: for an empty issue URL the run ends at once, without invoking any
\* stage, with the success:false envelope whose error is exactly
\* "No issue_url provided", not the malformed-URL message, and whose other
\* four fields are null.
C6_EmptyUrlRejected ==
    (pc # "init" /\ issue_url = <<>>)
        => /\ pc = "returned"
           /\ emitted = <<AllNullEnvelope("No issue_url provided")>>
           /\ emitted[1].error # "Invalid issue_url format"
           /\ started = <<>>
           /\ stageEvents = 0

\* the empty URL was rejected
C6_Witness ==
    /\ issue_url = <<>>
    /\ pc = "returned"
    /\ Len(emitted) = 1

\* C7: if fetch issue completes but leaves no issue_details key, the envelope
\* has success:false, error "No issue_details found" and the four result
\* fields null, and stages 2, 3 and 4 are never started.
C7_NoIssueDetails ==
    (Len(completed) >= 1 /\ state["issue_details"] = Absent)
        => /\ pc = "returned"
           /\ emitted = <<AllNullEnvelope("No issue_details found")>>
           /\ started = <<"fetch_issue">>
           /\ completed = <<"fetch_issue">>

\* fetch issue completed after passing events through, without issue_details
C7_Witness ==
    /\ completed = <<"fetch_issue">>
    /\ state["issue_details"] = Absent
    /\ stageEvents > 0
    /\ Len(emitted) = 1

\* C8: if stages 1 to 3 succeed but open pull request completes without
\* leaving pr_output, the envelope has success:false, issue_details and
\* analysis equal to the session-state values, the fixed
\* implementation_summary string, and pull_request null.
C8_NoPrOutput ==
    (completed = StageOrder /\ state["pr_output"] = Absent)
        => /\ pc = "returned"
           /\ Len(emitted) = 1
           /\ emitted[1].success = FALSE
           /\ emitted[1].issue_details = state["issue_details"]
           /\ emitted[1].issue_details # None
           /\ emitted[1].analysis = state["analysis"]
           /\ emitted[1].analysis # None
           /\ emitted[1].implementation_summary =
                  "Changes were implemented but PR creation failed"
           /\ emitted[1].pull_request = None

\* all four stages completed and pr_output is absent
C8_Witness ==
    /\ completed = StageOrder
    /\ state["pr_output"] = Absent
    /\ state["analysis"] = "text2"
    /\ Len(emitted) = 1

\* s is a prefix of t
IsPrefix(s, t) == Len(s) <= Len(t) /\ SubSeq(t, 1, Len(s)) = s

\* the stages that are running: started and neither completed nor raised
RunningCount == Len(started) - Len(completed) - Len(raised)

\* C9: stages run in the fixed order fetch issue, analyze issue, implement
\* fix, open pull request, strictly sequentially: a stage starts only after
\* every earlier stage has completed, at most one stage runs at a time, and
\* no stage is started more than once.
C9_SequentialOrder ==
    /\ IsPrefix(started, StageOrder)
    /\ IsPrefix(completed, started)
    /\ Len(started) <= Len(completed) + 1
    /\ RunningCount \in {0, 1}
    /\ (pc \in StageNames) <=> (RunningCount = 1)
    /\ pc \in StageNames => pc = started[Len(started)]
    /\ \A i, j \in 1..Len(started) : started[i] = started[j] => i = j

\* open pull request is running after the three earlier stages completed
C9_Witness ==
    /\ pc = "create_pr"
    /\ started = StageOrder
    /\ completed = <<"fetch_issue", "analyze_issue", "implement_fix">>

\* every key holds what its producing stage saved last, or is absent
HoldsProducersValue ==
    \A k \in StateKeys :
        IF lastWrite[k] = NoWrite
        THEN state[k] = Absent
        ELSE /\ k \in ProducedKeys
             /\ lastWrite[k].stage = ProducerOf(k)
             /\ state[k] = lastWrite[k].text

\* a step changes a key only while the key's producing stage is running
ChangedOnlyByProducer ==
    \A k \in StateKeys :
        state'[k] # state[k]
            => /\ k \in ProducedKeys
               /\ pc = ProducerOf(k)
               /\ pc' = pc

\* C10: session state is append-only within a run: issue_details, analysis
\* and pr_output are each saved by their one producing stage only (fetch,
\* analyze, open pull request); once set, a key is not deleted or overwritten
\* by the driver or by a later stage, so its value at the end of the run is
\* the value its producer saved.
C10_AppendOnly ==
    /\ []HoldsProducersValue
    /\ [][ChangedOnlyByProducer]_vars

\* all three keys were produced and the run has returned
C10_Witness ==
    /\ pc = "returned"
    /\ \A k \in ProducedKeys : state[k] # Absent
    /\ state["issue_details"] = "text1"
    /\ state["analysis"] = "text2"

\* the step in which the running stage raises
StageRaises == raised' # raised

\* a step that leaves the running stage, emits an envelope or starts a stage
\* is the stage's own completion or its raising
LeavesOnlyByStageEnd ==
    (pc \in StageNames /\ (pc' # pc \/ emitted' # emitted \/ started' # started))
        => (StageCompletes \/ StageRaises)

\* C11: there is no cancellation or timeout: while a started stage neither
\* completes nor raises, the run emits no envelope, starts no later stage and
\* does not terminate; the only transitions out of a running stage are the
\* stage's own completion or exception.
C11_NoTimeout ==
    /\ [](pc \in StageNames => emitted = <<>>)
    /\ [][LeavesOnlyByStageEnd]_vars

\* analyze issue is still running after the stages have yielded events and
\* saved a text: no envelope yet
C11_Witness ==
    /\ pc = "analyze_issue"
    /\ stageEvents > 0
    /\ state["analysis"] # Absent
    /\ emitted = <<>>

\* the state of the run as the design note names it: Fetching lasts from the
\* start of the run (input validation) to the end of fetch issue, Done is a
\* return with a success envelope, Failed any other end of the run
FsmState ==
    CASE pc \in {"init", "fetch_issue"} -> "Fetching"
      [] pc = "analyze_issue"           -> "Analyzing"
      [] pc = "implement_fix"           -> "Implementing"
      [] pc = "create_pr"               -> "OpeningPR"
      [] pc = "returned" /\ Len(emitted) > 0 /\ emitted[Len(emitted)].success
                                        -> "Done"
      [] OTHER                          -> "Failed"

LinearPath ==
    {<<"Fetching", "Analyzing">>, <<"Analyzing", "Implementing">>,
     <<"Implementing", "OpeningPR">>, <<"OpeningPR", "Done">>}

\* a change of state follows the linear path or goes to Failed, and never
\* leaves Done or Failed
FsmTransition ==
    FsmState' # FsmState
        => /\ FsmState \notin {"Done", "Failed"}
           /\ (<<FsmState, FsmState'>> \in LinearPath \/ FsmState' = "Failed")

\* some step of the run leads from here directly to Failed
AbleToFail == ENABLED (Next /\ FsmState' = "Failed")

\* C12: the run is a finite-state machine over Fetching, Analyzing,
\* Implementing, OpeningPR, Done and Failed: its only non-failure transitions
\* are the linear path Fetching -> Analyzing -> Implementing -> OpeningPR ->
\* Done, every stage state is able to go directly to Failed, and Done and
\* Failed have no outgoing transition.
C12_LinearStateMachine ==
    /\ [](pc \in StageNames => AbleToFail)
    /\ [][FsmTransition]_vars

\* the run reached Done along the whole linear path
C12_Witness ==
    /\ FsmState = "Done"
    /\ completed = StageOrder
    /\ stageEvents > 0

\* C13: if fetch issue produced issue_details and analyze issue completes
\* without leaving analysis, the envelope has success:false, error
\* "No analysis found", issue_details equal to the session-state value, and
\* analysis, implementation_summary and pull_request null, and stages 3 and 4
\* are never started.
C13_NoAnalysis ==
    (Len(completed) >= 2 /\ state["analysis"] = Absent)
        => /\ pc = "returned"
           /\ emitted =
                <<[success |-> FALSE, error |-> "No analysis found",
                   issue_details |-> state["issue_details"],
                   analysis |-> None, implementation_summary |-> None,
                   pull_request |-> None]>>
           /\ state["issue_details"] \notin {Absent, ""}
           /\ started = <<"fetch_issue", "analyze_issue">>
           /\ completed = started

\* analyze issue completed without analysis after yielding events
C13_Witness ==
    /\ completed = <<"fetch_issue", "analyze_issue">>
    /\ state["analysis"] = Absent
    /\ state["issue_details"] = "text2"
    /\ stageEvents > 0
    /\ pc = "returned"

\* a step that changes session state is a step of the running stage: the
\* stage goes on running, and nothing is emitted, completed or started
WrittenOnlyByRunningStage ==
    state' # state
        => /\ pc \in StageNames
           /\ pc' = pc
           /\ emitted' = emitted
           /\ completed' = completed
           /\ started' = started
           /\ raised' = raised

\* C14: the driver never writes to session state: input validation, the
\* post-stage key checks and the construction and emission of any envelope,
\* the exception handler's included, leave every key unchanged; session state
\* changes only while a stage is running.
C14_DriverNeverWrites ==
    /\ [](pc = "init" => state = [k \in StateKeys |-> Absent])
    /\ [][WrittenOnlyByRunningStage]_vars

\* the exception handler emitted its envelope with keys in session state
C14_Witness ==
    /\ pc = "returned"
    /\ Len(raised) = 1
    /\ Len(emitted) = 1
    /\ state["issue_details"] = "text1"
    /\ state["analysis"] = "text1"

EnvelopeFields ==
    {"success", "error", "issue_details", "analysis",
     "implementation_summary", "pull_request"}

\* C15: every envelope emitted, on every path, has exactly the six fields
\* success, error, issue_details, analysis, implementation_summary and
\* pull_request, and its error is non-null if and only if success is false.
C15_FixedShape ==
    \A i \in 1..Len(emitted) :
        /\ DOMAIN emitted[i] = EnvelopeFields
        /\ emitted[i].success \in BOOLEAN
        /\ (emitted[i].error # None) <=> (emitted[i].success = FALSE)

\* an invalid URL was answered with an envelope
C15_Witness ==
    /\ Len(emitted) = 1
    /\ emitted[1].error = "Invalid issue_url format"
    /\ issue_url # <<>>

\* the envelope after stage s completed with its key absent
MissingKeyEnvelope(s) ==
    [success |-> FALSE,
     error |-> MissingKeyError(s),
     issue_details |-> IF s = "fetch_issue" THEN None
                       ELSE state["issue_details"],
     analysis |-> IF s = "create_pr" THEN state["analysis"] ELSE None,
     implementation_summary |->
         IF s = "create_pr"
         THEN "Changes were implemented but PR creation failed" ELSE None,
     pull_request |-> None]

\* C16: a stage that saves an empty text under its output key is treated
\* exactly like a stage that saved nothing: for issue_details, analysis and
\* pr_output alike, an empty value after the producing stage gives the
\* missing-key envelope of the absent key and the same short-circuit, and the
\* empty value is not carried into the envelope field of that key.
C16_EmptyIsMissing ==
    \A k \in ProducedKeys :
        (StageIndex(ProducerOf(k)) <= Len(completed) /\ state[k] \in {Absent, ""})
            => /\ pc = "returned"
               /\ emitted = <<MissingKeyEnvelope(ProducerOf(k))>>
               /\ FieldValue(emitted[1], k) = None
               /\ Len(started) = StageIndex(ProducerOf(k))
               /\ completed = started

\* open pull request completed having saved an empty pr_output
C16_Witness ==
    /\ completed = StageOrder
    /\ state["pr_output"] = ""
    /\ lastWrite["pr_output"].stage = "create_pr"
    /\ pc = "returned"

\* C17: in every success envelope issue_details, analysis and pull_request
\* are non-null and non-empty; in every envelope a non-null analysis implies a
\* non-null issue_details and a non-null pull_request implies a non-null
\* analysis.
C17_PrefixPopulated ==
    \A i \in 1..Len(emitted) :
        /\ emitted[i].success
              => /\ emitted[i].issue_details \notin {None, ""}
                 /\ emitted[i].analysis \notin {None, ""}
                 /\ emitted[i].pull_request \notin {None, ""}
        /\ emitted[i].analysis # None => emitted[i].issue_details # None
        /\ emitted[i].pull_request # None => emitted[i].analysis # None

\* the exception handler's envelope while open pull request had saved an
\* empty pr_output
C17_Witness ==
    /\ pc = "returned"
    /\ Len(raised) = 1
    /\ Len(emitted) = 1
    /\ emitted[1].pull_request = ""
    /\ emitted[1].analysis = "text2"

\* C18: the exception envelope reads implementation_summary from the
\* session-state key of that name, which no stage produces, so it is null in
\* every exception envelope, also when open pull request raises after
\* implement fix completed; the missing-pr_output envelope and the success
\* envelope carry their fixed non-null implementation_summary strings.
C18_SummaryNullOnException ==
    /\ state["implementation_summary"] = Absent
    /\ (pc = "returned" /\ raised # <<>>)
          => emitted[1].implementation_summary = None
    /\ completed = StageOrder
          => /\ emitted[1].implementation_summary # None
             /\ emitted[1].implementation_summary =
                  IF emitted[1].success
                  THEN "Successfully implemented code changes based on issue analysis"
                  ELSE "Changes were implemented but PR creation failed"

\* open pull request raised an Exception after implement fix had completed
C18_Witness ==
    /\ pc = "returned"
    /\ Len(raised) = 1
    /\ started = StageOrder
    /\ completed = <<"fetch_issue", "analyze_issue", "implement_fix">>
    /\ Len(emitted) = 1

\* C19 as stated: if every started stage eventually completes or raises,
\* every run eventually terminates having emitted an envelope, after starting
\* at most four stages.
C19_TerminatesWithEnvelope ==
    /\ <>(Terminated /\ Len(emitted) = 1)
    /\ [](Len(started) <= 4)

\* C19 amended: if every started stage eventually completes or raises, every
\* run eventually terminates after starting at most four stages: either the
\* driver returns having emitted exactly one envelope, or an exception
\* outside the Exception hierarchy propagates to the caller and no envelope
\* has been emitted.
C19_Terminates ==
    /\ <>Terminated
    /\ [](Len(started) <= 4)
    /\ [](Terminated =>
            \/ pc = "returned" /\ Len(emitted) = 1
            \/ pc = "propagated" /\ emitted = <<>> /\ Len(raised) = 1)

\* the run terminated after starting all four stages
C19_Witness ==
    /\ Terminated
    /\ started = StageOrder
    /\ stageEvents > 0
    /\ Len(emitted) = 1
    /\ emitted[1].error = "PR creation failed"
====
